---- MODULE Spec2Model ----
(***************************************************************************)
(* Model of the per-connection framing pipeline ConnectionIOManager of     *)
(* core/src/network/serialize.rs: accept_data (ingress), serialize_packet  *)
(* (egress), the stage machine, the compression envelope and the stream    *)
(* cipher.  A framer is a record holding the fields of the struct; every   *)
(* method is an operator from a framer (and its arguments) to the framer   *)
(* after the call and what the call returns.                               *)
(*                                                                         *)
(* Collaborators that are not part of serialize.rs (the cursor buffer      *)
(* ByteBuf, the VarInt codec of mctypes, the packet registry and payload   *)
(* codecs of packet) are modelled from their description; zlib and         *)
(* AES/CFB8 are modelled by small codecs with the properties the framer    *)
(* relies on (self-delimiting compressed streams whose length can exceed   *)
(* or fall below the input; a stateful byte-wise cipher whose key stream   *)
(* depends on the key and on the ciphertext seen so far).                  *)
(***************************************************************************)
EXTENDS Integers, Sequences, FiniteSets, TLC

(***************************************************************************)
(* Bounds of the model.                                                    *)
(***************************************************************************)
\* frames sent on one connection, both directions together
MaxFrames == 2
\* bytes an allocation may hold beyond the capacity asked for
MaxSlack == 1

(***************************************************************************)
(* Sequences of bytes.                                                     *)
(***************************************************************************)
Min(a, b) == IF a < b THEN a ELSE b

Take(s, n) == SubSeq(s, 1, n)

Drop(s, n) == SubSeq(s, n + 1, Len(s))

(***************************************************************************)
(* VarInt codec (mctypes): 1-5 bytes, 7 payload bits per byte, little      *)
(* endian, high bit = continuation; the value is a signed 32-bit integer.  *)
(***************************************************************************)
RECURSIVE VarIntBytes(_)
VarIntBytes(u) ==
    IF u < 128 THEN <<u>>
    ELSE <<(u % 128) + 128>> \o VarIntBytes(u \div 128)

\* write_var_int(v): the bytes of v as an unsigned 32-bit value; a negative
\* v is v + 2^32, whose low 7 bits are v % 128 and whose other bits are
\* (v \div 128) + 2^25
write_var_int(v) ==
    IF v >= 0 THEN VarIntBytes(v)
    ELSE <<(v % 128) + 128>> \o VarIntBytes((v \div 128) + 33554432)

RECURSIVE Pow128(_)
Pow128(n) == IF n = 0 THEN 1 ELSE 128 * Pow128(n - 1)

\* the 7 bits of the byte b shifted left by 7 * n in a signed 32-bit
\* integer: of the fifth byte only 4 bits stay, the highest as the sign
Shifted(b, n) ==
    IF n < 4 THEN (b % 128) * Pow128(n)
    ELSE (IF b % 16 >= 8 THEN (b % 16) - 16 ELSE b % 16) * Pow128(4)

\* read_var_int on the bytes s, starting after the first pos bytes, having
\* read n bytes with partial value acc.  ok = FALSE with err "Incomplete"
\* when the input runs out, "Malformed" after 5 bytes without a terminator.
RECURSIVE ReadVarIntFrom(_, _, _, _)
ReadVarIntFrom(s, pos, n, acc) ==
    IF n >= 5 THEN [ok |-> FALSE, err |-> "Malformed", val |-> 0, n |-> n]
    ELSE IF pos + n >= Len(s)
         THEN [ok |-> FALSE, err |-> "Incomplete", val |-> 0, n |-> n]
    ELSE LET b == s[pos + n + 1]
             acc2 == acc + Shifted(b, n)
         IN  IF b < 128
             THEN [ok |-> TRUE, err |-> "", val |-> acc2, n |-> n + 1]
             ELSE ReadVarIntFrom(s, pos, n + 1, acc2)

read_var_int(s, pos) == ReadVarIntFrom(s, pos, 0, 0)

(***************************************************************************)
(* Cursor buffer (bytebuf::ByteBuf): the bytes, the read cursor and one    *)
(* marked read position.                                                   *)
(***************************************************************************)
EmptyBuf == [inner |-> <<>>, rpos |-> 0, mark |-> 0]

\* inner(): the unread bytes
Unread(b) == Drop(b.inner, b.rpos)

\* remaining()
Remaining(b) == Len(b.inner) - b.rpos

\* write_all(bytes)
WriteAll(b, bytes) == [b EXCEPT !.inner = @ \o bytes]

\* mark_read_position()
MarkRead(b) == [b EXCEPT !.mark = b.rpos]

\* reset_read_position()
ResetRead(b) == [b EXCEPT !.rpos = b.mark]

\* advance(n)
Advance(b, n) == [b EXCEPT !.rpos = @ + n]

\* remove_prior(): discard the bytes before the read cursor
RemovePrior(b) == [inner |-> Drop(b.inner, b.rpos), rpos |-> 0, mark |-> 0]

(***************************************************************************)
(* zlib (flate2), as used by compress_data and decompress_data.  A         *)
(* compressed stream is a header byte, one <<count, value>> pair for each  *)
(* run of equal bytes, and an end marker: like a zlib stream it is         *)
(* self-delimiting, shorter than a repetitive input and longer than an     *)
(* input without repetition.                                               *)
(***************************************************************************)
RECURSIVE RunLength(_, _)
RunLength(s, v) ==
    IF s = <<>> \/ s[1] # v THEN 0 ELSE 1 + RunLength(Tail(s), v)

RECURSIVE RunPairs(_)
RunPairs(s) ==
    IF s = <<>> THEN <<>>
    ELSE LET n == RunLength(s, s[1])
         IN  <<n, s[1]>> \o RunPairs(Drop(s, n))

Repeat(v, n) == [i \in 1..n |-> v]

\* ZlibEncoder run to the end of its input
ZlibDeflate(s) == <<120>> \o RunPairs(s) \o <<0>>

\* The decoder run over s from its first byte: the bytes it produces (out)
\* and how it ends: "end" at the end marker, "trunc" when the input runs
\* out first, "corrupt" when s is not a compressed stream.
RECURSIVE InflatePairs(_, _)
InflatePairs(s, out) ==
    IF s = <<>> THEN [status |-> "trunc", out |-> out]
    ELSE IF s[1] = 0 THEN [status |-> "end", out |-> out]
    ELSE IF Len(s) < 2 THEN [status |-> "trunc", out |-> out]
    ELSE InflatePairs(Drop(s, 2), out \o Repeat(s[2], s[1]))

ZlibInflate(s) ==
    IF s = <<>> THEN [status |-> "trunc", out |-> <<>>]
    ELSE IF s[1] # 120 THEN [status |-> "corrupt", out |-> <<>>]
    ELSE InflatePairs(Tail(s), <<>>)

(***************************************************************************)
(* AES-128/CFB8 (AesCfb8): a cipher state is the key and the feedback      *)
(* register; every byte is combined with a key-stream byte computed from   *)
(* both, and the ciphertext byte is fed back into the register.  The       *)
(* register holds the last ciphertext byte (the last 16 in AES).           *)
(***************************************************************************)
KeyStream(c) == (c.key * 31 + c.reg * 17 + 7) % 256

\* AesCfb8::new_var(&key, &key): the IV is the key
NewCipher(key) == [key |-> key, reg |-> key % 256]

\* crypter.encrypt(data): the cipher after the call and the bytes in place
RECURSIVE CipherEncrypt(_, _, _)
CipherEncrypt(c, data, out) ==
    IF data = <<>> THEN [cipher |-> c, data |-> out]
    ELSE LET ct == (data[1] + KeyStream(c)) % 256
         IN  CipherEncrypt([c EXCEPT !.reg = ct], Tail(data), Append(out, ct))

\* crypter.decrypt(data)
RECURSIVE CipherDecrypt(_, _, _)
CipherDecrypt(c, data, out) ==
    IF data = <<>> THEN [cipher |-> c, data |-> out]
    ELSE LET pt == (data[1] + 256 - KeyStream(c)) % 256
         IN  CipherDecrypt([c EXCEPT !.reg = data[1]], Tail(data), Append(out, pt))

\* encrypter / decrypter = None
NoCipher == [key |-> 0, reg |-> 0]

(***************************************************************************)
(* Packets (packet::PacketType, packet::implementation).  A packet is a    *)
(* record of its type and its fields: next_state of a Handshake, and the   *)
(* one string of the packet (server_address, username, message, reason).   *)
(***************************************************************************)
Stages == {"Handshake", "Status", "Login", "Play"}

Directions == {"Serverbound", "Clientbound"}

PacketTypes ==
    {"Handshake", "Request", "LoginStart", "ChatMessageServerbound",
     "LoginSuccess", "DisconnectPlay"}

\* PacketType::get_id(): PacketId(id, direction, stage)
get_id(ty) ==
    CASE ty = "Handshake"              -> [id |-> 0, direction |-> "Serverbound", stage |-> "Handshake"]
      [] ty = "Request"                -> [id |-> 0, direction |-> "Serverbound", stage |-> "Status"]
      [] ty = "LoginStart"             -> [id |-> 0, direction |-> "Serverbound", stage |-> "Login"]
      [] ty = "ChatMessageServerbound" -> [id |-> 2, direction |-> "Serverbound", stage |-> "Play"]
      [] ty = "LoginSuccess"           -> [id |-> 2, direction |-> "Clientbound", stage |-> "Login"]
      [] ty = "DisconnectPlay"         -> [id |-> 27, direction |-> "Clientbound", stage |-> "Play"]

\* PacketType::get_from_id(PacketId(id, direction, stage)): the types
\* registered under the id (none: Err; the registry holds at most one)
get_from_id(id, direction, stage) ==
    {ty \in PacketTypes :
        get_id(ty) = [id |-> id, direction |-> direction, stage |-> stage]}

Packet(ty, next_state, text) == [ty |-> ty, next_state |-> next_state, text |-> text]

\* write_string: the length as a VarInt, then the bytes
write_string(text) == write_var_int(Len(text)) \o text

\* read_string on the bytes s after the first pos bytes
read_string(s, pos) ==
    LET l == read_var_int(s, pos)
    IN  IF ~l.ok \/ l.val < 0 \/ pos + l.n + l.val > Len(s)
        THEN [ok |-> FALSE, text |-> <<>>, n |-> 0]
        ELSE [ok |-> TRUE, text |-> SubSeq(s, pos + l.n + 1, pos + l.n + l.val),
              n |-> l.n + l.val]

\* Handshake: protocol_version 404 and server_port 25565 on every Handshake
HandshakeProtocol == write_var_int(404)

HandshakePort == <<99, 221>>

\* LoginSuccess: the uuid string written before the username
LoginUuid == <<117>>

\* Packet::write_to: the payload of a packet
write_to(p) ==
    CASE p.ty = "Handshake" ->
            HandshakeProtocol \o write_string(p.text) \o HandshakePort
                \o write_var_int(p.next_state)
      [] p.ty = "Request" -> <<>>
      [] p.ty = "LoginSuccess" -> write_string(LoginUuid) \o write_string(p.text)
      [] OTHER -> write_string(p.text)

\* Packet::read_from of the type ty on the payload bytes s: ok = FALSE when
\* the payload is malformed (a field is cut short, next_state is unknown)
read_from(ty, s) ==
    LET bad == [ok |-> FALSE, packet |-> Packet(ty, 0, <<>>)]
    IN  CASE ty = "Handshake" ->
                LET v == read_var_int(s, 0)
                    a == read_string(s, v.n)
                    q == v.n + a.n + 2
                    ns == read_var_int(s, q)
                IN  IF ~v.ok \/ ~a.ok \/ q > Len(s) \/ ~ns.ok
                       \/ ns.val \notin {1, 2}
                    THEN bad
                    ELSE [ok |-> TRUE, packet |-> Packet(ty, ns.val, a.text)]
          [] ty = "Request" -> [ok |-> TRUE, packet |-> Packet(ty, 0, <<>>)]
          [] ty = "LoginSuccess" ->
                LET u == read_string(s, 0)
                    n == read_string(s, u.n)
                IN  IF ~u.ok \/ ~n.ok THEN bad
                    ELSE [ok |-> TRUE, packet |-> Packet(ty, 0, n.text)]
          [] OTHER ->
                LET t == read_string(s, 0)
                IN  IF ~t.ok THEN bad
                    ELSE [ok |-> TRUE, packet |-> Packet(ty, 0, t.text)]

(***************************************************************************)
(* ConnectionIOManager.                                                    *)
(***************************************************************************)
\* ConnectionIOManager::new(direction)
new(direction) ==
    [encryption_enabled |-> FALSE,
     encryption_key |-> 0,
     compression_enabled |-> FALSE,
     compression_threshold |-> 0,
     pending_received_packets |-> <<>>,
     incoming_compressed |-> EmptyBuf,
     incoming_uncompressed |-> EmptyBuf,
     encrypter |-> NoCipher,
     decrypter |-> NoCipher,
     stage |-> "Handshake",
     direction |-> direction]

set_stage(f, stage) == [f EXCEPT !.stage = stage]

enable_encryption_ClearsCompression(f, key) ==
    [f EXCEPT !.encryption_enabled = TRUE,
              !.encryption_key = key,
              !.compression_enabled = FALSE,
              !.encrypter = NewCipher(key),
              !.decrypter = NewCipher(key)]

enable_encryption(f, key) ==
    [f EXCEPT !.encryption_enabled = TRUE,
              !.encryption_key = key,
              !.encrypter = NewCipher(key),
              !.decrypter = NewCipher(key)]

enable_compression(f, threshold) ==
    [f EXCEPT !.compression_enabled = TRUE,
              !.compression_threshold = threshold]

decrypt_data_StateLost(f, data) ==
    [f |-> f, data |-> CipherDecrypt(f.decrypter, data, <<>>).data]

\* decrypt_data(data): the framer after the call and the bytes in place
decrypt_data(f, data) ==
    LET r == CipherDecrypt(f.decrypter, data, <<>>)
    IN  [f |-> [f EXCEPT !.decrypter = r.cipher], data |-> r.data]

encrypt_data_StateLost(f, data) ==
    [f |-> f, data |-> CipherEncrypt(f.encrypter, data, <<>>).data]

encrypt_data_SharedCipher(f, data) ==
    LET r == CipherEncrypt(f.decrypter, data, <<>>)
    IN  [f |-> [f EXCEPT !.decrypter = r.cipher], data |-> r.data]

\* encrypt_data(data)
encrypt_data(f, data) ==
    LET r == CipherEncrypt(f.encrypter, data, <<>>)
    IN  [f |-> [f EXCEPT !.encrypter = r.cipher], data |-> r.data]

\* decompress_data(uncompressed_size).  The decoder is built over the whole
\* of incoming_compressed, not over the frame: its buffered reader takes
\* every unread byte of it (up to 32 KiB) in one read, and one read of the
\* decoder fills the room reserved in incoming_uncompressed, which is
\* uncompressed_size bytes and what the allocation adds (slack).  The
\* length produced is not compared with uncompressed_size.  A corrupt
\* stream makes read fail and unwrap() panic; so does reserve of a negative
\* size cast to usize.
decompress_data(f, uncompressed_size, slack) ==
    LET data == f.incoming_compressed
        z == ZlibInflate(Unread(data))
        amnt == Min(Len(z.out), uncompressed_size + slack)
    IN  IF uncompressed_size < 0 \/ z.status = "corrupt"
        THEN [f |-> f, panic |-> TRUE]
        ELSE [f |-> [f EXCEPT
                        !.incoming_compressed = Advance(data, Remaining(data)),
                        !.incoming_uncompressed = WriteAll(@, Take(z.out, amnt))],
              panic |-> FALSE]

StageAfterDecode_Swapped(stage, packet) ==
    IF packet.ty = "Handshake"
    THEN (IF packet.next_state = 2 THEN "Status" ELSE "Login")
    ELSE stage

\* Lines 171-182 of accept_data: the stage after a packet has been decoded
StageAfterDecode(stage, packet) ==
    IF packet.ty = "Handshake"
    THEN (IF packet.next_state = 2 THEN "Login" ELSE "Status")
    ELSE stage

DecodePacket_UnknownSkipped(f, packet_length, len_of_compressed_size_field) ==
    LET buf == MarkRead(f.incoming_uncompressed)
        id == read_var_int(buf.inner, buf.rpos)
        types == get_from_id(id.val, f.direction, f.stage)
        ty == CHOOSE t \in types : TRUE
        buf2 == Advance(buf, id.n)
        upper_index == packet_length - (buf2.rpos - buf2.mark)
                          - len_of_compressed_size_field
        parsed == read_from(ty, Take(Unread(buf2), upper_index))
        packet == parsed.packet
        stage2 == StageAfterDecode(f.stage, packet)
    IN  IF ~id.ok
        THEN [f |-> [f EXCEPT !.incoming_uncompressed = buf], res |-> "Err"]
        ELSE IF upper_index < 0 \/ upper_index > Remaining(buf2)
        THEN [f |-> [f EXCEPT !.incoming_uncompressed = buf2], res |-> "Panic"]
        ELSE IF types = {}
        THEN [f |-> [f EXCEPT
                        !.incoming_uncompressed =
                            RemovePrior(Advance(buf2, upper_index))],
              res |-> "Ok"]
        ELSE IF ~parsed.ok
        THEN [f |-> [f EXCEPT !.incoming_uncompressed = buf2], res |-> "Err"]
        ELSE [f |-> [f EXCEPT
                        !.incoming_uncompressed =
                            RemovePrior(Advance(buf2, upper_index)),
                        !.stage = stage2,
                        !.pending_received_packets = Append(@, packet)],
              res |-> "Ok"]

\* Lines 142-186 of accept_data: decode one packet of packet_length bytes
\* from incoming_uncompressed and push it.  res is "Ok" (pushed), "Err"
\* (return Err(())) or "Panic" (an index or arithmetic panic).
DecodePacket(f, packet_length, len_of_compressed_size_field) ==
    LET buf == MarkRead(f.incoming_uncompressed)
        id == read_var_int(buf.inner, buf.rpos)
        types == get_from_id(id.val, f.direction, f.stage)
        ty == CHOOSE t \in types : TRUE
        buf2 == Advance(buf, id.n)
        upper_index == packet_length - (buf2.rpos - buf2.mark)
                          - len_of_compressed_size_field
        parsed == read_from(ty, Take(Unread(buf2), upper_index))
        packet == parsed.packet
        stage2 == StageAfterDecode(f.stage, packet)
    IN  IF ~id.ok
        THEN [f |-> [f EXCEPT !.incoming_uncompressed = buf], res |-> "Err"]
        ELSE IF types = {}
        THEN [f |-> [f EXCEPT !.incoming_uncompressed = buf2], res |-> "Err"]
        ELSE IF upper_index < 0 \/ upper_index > Remaining(buf2)
        THEN [f |-> [f EXCEPT !.incoming_uncompressed = buf2], res |-> "Panic"]
        ELSE IF ~parsed.ok
        THEN [f |-> [f EXCEPT !.incoming_uncompressed = buf2], res |-> "Err"]
        ELSE [f |-> [f EXCEPT
                        !.incoming_uncompressed =
                            RemovePrior(Advance(buf2, upper_index)),
                        !.stage = stage2,
                        !.pending_received_packets = Append(@, packet)],
              res |-> "Ok"]

\* Lines 113-140 of accept_data: move the body of the frame, whose length
\* VarInt has been read, from incoming_compressed to incoming_uncompressed.
\* packet_length and len_of_compressed_size_field are the locals of the
\* code after line 140.
UnwrapFrame(f, packet_length, slack) ==
    LET pb == MarkRead(f.incoming_compressed)
        fm == [f EXCEPT !.incoming_compressed = pb]
        us == read_var_int(pb.inner, pb.rpos)
        pb2 == Advance(pb, us.n)
        f2 == [f EXCEPT !.incoming_compressed = pb2]
        d == decompress_data(f2, us.val, slack)
        none == [f |-> fm, res |-> "Ok", packet_length |-> 0,
                 len_of_compressed_size_field |-> 0]
    IN  IF f.compression_enabled
        THEN IF ~us.ok THEN [none EXCEPT !.res = "Err"]
             ELSE IF us.val # 0
             THEN IF d.panic THEN [none EXCEPT !.f = f2, !.res = "Panic"]
                  ELSE [f |-> [d.f EXCEPT !.incoming_compressed = RemovePrior(@)],
                        res |-> "Ok", packet_length |-> us.val,
                        len_of_compressed_size_field |-> 0]
             ELSE IF packet_length - 1 < 0 \/ packet_length - 1 > Remaining(pb2)
             THEN [none EXCEPT !.f = f2, !.res = "Panic"]
             ELSE [f |-> [f EXCEPT
                            !.incoming_uncompressed =
                                WriteAll(@, Take(Unread(pb2), packet_length - 1)),
                            !.incoming_compressed =
                                RemovePrior(Advance(pb2, packet_length - 1))],
                   res |-> "Ok", packet_length |-> packet_length,
                   len_of_compressed_size_field |-> pb2.rpos - pb2.mark]
        ELSE IF packet_length < 0
             THEN [none EXCEPT !.res = "Panic"]
             ELSE [f |-> [f EXCEPT
                            !.incoming_uncompressed =
                                WriteAll(@, Take(Unread(pb), packet_length)),
                            !.incoming_compressed =
                                RemovePrior(Advance(pb, packet_length))],
                   res |-> "Ok", packet_length |-> packet_length,
                   len_of_compressed_size_field |-> 0]

\* The loop of accept_data (lines 90-187)
RECURSIVE AcceptLoop(_, _)
AcceptLoop(f, slack) ==
    LET pb == MarkRead(f.incoming_compressed)
        len == read_var_int(pb.inner, pb.rpos)
        pb2 == Advance(pb, len.n)
        wait == [f |-> [f EXCEPT !.incoming_compressed = ResetRead(pb)],
                 res |-> "Ok"]
        u == UnwrapFrame([f EXCEPT !.incoming_compressed = pb2], len.val, slack)
        d == DecodePacket(u.f, u.packet_length, u.len_of_compressed_size_field)
    IN  IF ~len.ok THEN wait
        ELSE IF Remaining(pb2) < len.val THEN wait
        ELSE IF u.res # "Ok" THEN [f |-> u.f, res |-> u.res]
        ELSE IF d.res # "Ok" THEN d
        ELSE AcceptLoop(d.f, slack)

\* accept_data(data): the framer after the call and res = "Ok" for Ok(()),
\* "Err" for Err(()), "Panic" when the call panics
accept_data(f, data, slack) ==
    LET dec == IF f.encryption_enabled THEN decrypt_data(f, data)
               ELSE [f |-> f, data |-> data]
    IN  AcceptLoop([dec.f EXCEPT !.incoming_compressed = WriteAll(@, dec.data)],
                   slack)

\* compress_data(data, output): one read of the encoder into the room left
\* in output, which was allocated for capacity bytes; what does not fit is
\* not written.
compress_data(data, output, capacity) ==
    LET z == ZlibDeflate(data)
        room == IF capacity > Len(output) THEN capacity - Len(output) ELSE 0
    IN  output \o Take(z, Min(Len(z), room))

StageAfterSerialize_Unchanged(stage, packet) == stage

StageAfterSerialize_Login(stage, packet) ==
    IF packet.ty = "LoginSuccess" THEN "Login" ELSE stage

\* Lines 193-195 of serialize_packet: the stage after a packet has been
\* handed to serialize_packet
StageAfterSerialize(stage, packet) ==
    IF packet.ty = "LoginSuccess" THEN "Play" ELSE stage

LengthPrefixed_CountsItself(buf_without_length) ==
    write_var_int(Len(buf_without_length) + 1) \o buf_without_length

\* Lines 223-225 of serialize_packet: the frame of an envelope
LengthPrefixed(buf_without_length) ==
    write_var_int(Len(buf_without_length)) \o buf_without_length

\* serialize_packet(packet): the framer after the call and the bytes
\* returned.  buf_without_length is allocated with the capacity
\* packet_data_buf.len(), and what the allocation adds (slack).
serialize_packet(f, packet, slack) ==
    LET f1 == [f EXCEPT !.stage = StageAfterSerialize(f.stage, packet)]
        packet_data_buf == write_var_int(get_id(packet.ty).id) \o write_to(packet)
        uncompressed_length == Len(packet_data_buf)
        buf_without_length ==
            IF f1.compression_enabled
            THEN IF Len(packet_data_buf) < f1.compression_threshold
                 THEN write_var_int(0) \o packet_data_buf
                 ELSE compress_data(packet_data_buf,
                                    write_var_int(uncompressed_length),
                                    Len(packet_data_buf) + slack)
            ELSE packet_data_buf
        buf == LengthPrefixed(buf_without_length)
        enc == IF f1.encryption_enabled THEN encrypt_data(f1, buf)
               ELSE [f |-> f1, data |-> buf]
    IN  [f |-> enc.f, buf |-> enc.data]

take_pending_packets_NotCleared(f) ==
    [f |-> f, packets |-> f.pending_received_packets]

\* take_pending_packets(): the framer after the call and the packets returned
take_pending_packets(f) ==
    [f |-> [f EXCEPT !.pending_received_packets = <<>>],
     packets |-> f.pending_received_packets]

(***************************************************************************)
(* The connection: the framer under test (fr), which decodes the packets   *)
(* of its direction, and a mirror framer at the other end of the           *)
(* connection (peer), which encodes them.  The caller of fr feeds it the   *)
(* bytes the peer has written in chunks of any length, takes the pending   *)
(* packets, and has it serialize packets of the opposite direction.        *)
(***************************************************************************)
VARIABLES
    fr,        \* the framer under test
    peer,      \* the mirror framer
    fr0,       \* fr when the first byte was put on the wire
    sent,      \* the packets the peer has serialized, in order
    stream,    \* the bytes the peer has written, in order
    fed,       \* how many bytes of stream fr has accepted
    accepts,   \* accept_data calls on fr so far: 0, 1, or 2 for more
    res,       \* what the last accept_data call on fr returned
    taken,     \* the packets take_pending_packets has returned, in order
    frSent,    \* the packets fr has serialized, in order
    out,       \* the bytes fr has returned from serialize_packet, in order
    slack      \* what this build's allocations add to the capacity asked for

vars ==
    <<fr, peer, fr0, sent, stream, fed, accepts, res, taken, frSent, out, slack>>

Opposite(direction) ==
    IF direction = "Serverbound" THEN "Clientbound" ELSE "Serverbound"

\* the packets of the callers
Packets ==
    {Packet("Handshake", ns, <<>>) : ns \in {1, 2}}
        \cup {Packet("Request", 0, <<>>),
              Packet("LoginStart", 0, <<66, 111, 98>>),
              Packet("LoginSuccess", 0, <<66, 111, 98>>)}
        \cup {Packet("ChatMessageServerbound", 0, t) :
                t \in {<<66, 111, 98>>, Repeat(55, 8)}}
        \cup {Packet("DisconnectPlay", 0, Repeat(55, 8))}

PacketsOf(direction) == {p \in Packets : get_id(p.ty).direction = direction}

\* the keys and thresholds the callers enable
Keys == {11}

Thresholds == {5, 10}

\* nothing has been sent in either direction
Fresh == stream = <<>> /\ frSent = <<>>

Init ==
    /\ fr \in {new(d) : d \in Directions}
    /\ peer = new(Opposite(fr.direction))
    /\ fr0 = fr
    /\ sent = <<>>
    /\ stream = <<>>
    /\ fed = 0
    /\ accepts = 0
    /\ res = "Ok"
    /\ taken = <<>>
    /\ frSent = <<>>
    /\ out = <<>>
    /\ slack = 0

\* set_stage(stage) on the framer under test, before any traffic
SetStage(stage) ==
    /\ Fresh
    /\ stage # fr.stage
    /\ fr' = set_stage(fr, stage)
    /\ fr0' = fr'
    /\ UNCHANGED <<peer, sent, stream, fed, accepts, res, taken, frSent, out, slack>>

\* enable_encryption(key) at both ends, before any traffic
EnableEncryption(key) ==
    /\ Fresh
    /\ ~fr.encryption_enabled
    /\ fr' = enable_encryption(fr, key)
    /\ peer' = enable_encryption(peer, key)
    /\ fr0' = fr'
    /\ UNCHANGED <<sent, stream, fed, accepts, res, taken, frSent, out, slack>>

\* enable_compression(threshold) at both ends, before any traffic.  The
\* buffers of the compression paths are allocated from here on: what the
\* allocations of the build add to a capacity is fixed with it.
EnableCompression(threshold, s) ==
    /\ Fresh
    /\ ~fr.compression_enabled
    /\ fr' = enable_compression(fr, threshold)
    /\ peer' = enable_compression(peer, threshold)
    /\ fr0' = fr'
    /\ slack' = s
    /\ UNCHANGED <<sent, stream, fed, accepts, res, taken, frSent, out>>

\* the stage in which fr will decode the next packet the peer sends, when
\* both ends follow the protocol
ExpectedStage ==
    IF fr.stage = "Play" \/ sent = <<>> THEN fr.stage
    ELSE LET last == sent[Len(sent)]
         IN  IF last.ty = "Handshake"
             THEN (IF last.next_state = 2 THEN "Login" ELSE "Status")
             ELSE get_id(last.ty).stage

\* the peer serializes a packet of the stage the connection is in and
\* writes the bytes to the connection
PeerSend(packet) ==
    /\ Len(sent) + Len(frSent) < MaxFrames
    /\ res = "Ok"
    /\ get_id(packet.ty).stage = ExpectedStage
    /\ LET r == serialize_packet(peer, packet, slack)
       IN  /\ peer' = r.f
           /\ stream' = stream \o r.buf
    /\ sent' = Append(sent, packet)
    /\ UNCHANGED <<fr, fr0, fed, accepts, res, taken, frSent, out, slack>>

\* accept_data on the next n bytes of the connection; after Err or a panic
\* the connection is dropped
Accept(n) ==
    /\ res = "Ok"
    /\ fed + n <= Len(stream)
    /\ LET r == accept_data(fr, SubSeq(stream, fed + 1, fed + n), slack)
       IN  /\ fr' = r.f
           /\ res' = r.res
    /\ fed' = fed + n
    /\ accepts' = Min(accepts + 1, 2)
    /\ UNCHANGED <<peer, fr0, sent, stream, taken, frSent, out, slack>>

\* take_pending_packets on the framer under test
TakePending ==
    /\ fr.pending_received_packets # <<>>
    /\ LET r == take_pending_packets(fr)
       IN  /\ fr' = r.f
           /\ taken' = taken \o r.packets
    /\ UNCHANGED <<peer, fr0, sent, stream, fed, accepts, res, frSent, out, slack>>

\* serialize_packet on the framer under test
Send(packet) ==
    /\ Len(sent) + Len(frSent) < MaxFrames
    /\ res = "Ok"
    /\ LET r == serialize_packet(fr, packet, slack)
       IN  /\ fr' = r.f
           /\ out' = out \o r.buf
    /\ frSent' = Append(frSent, packet)
    /\ UNCHANGED <<peer, fr0, sent, stream, fed, accepts, res, taken, slack>>

Next ==
    \/ \E stage \in Stages : SetStage(stage)
    \/ \E key \in Keys : EnableEncryption(key)
    \/ \E threshold \in Thresholds, s \in 0..MaxSlack :
          EnableCompression(threshold, s)
    \/ \E packet \in PacketsOf(fr.direction) : PeerSend(packet)
    \/ \E n \in 1..(Len(stream) - fed) : Accept(n)
    \/ TakePending
    \/ \E packet \in PacketsOf(Opposite(fr.direction)) : Send(packet)

Spec == Init /\ [][Next]_vars

TypeOK ==
    /\ fr.stage \in Stages
    /\ res \in {"Ok", "Err", "Panic"}
    /\ fed <= Len(stream)

(***************************************************************************)
(* The connection with a peer that does not follow the protocol: it writes *)
(* crafted frames (through its cipher when encryption is enabled), and the *)
(* caller of fr feeds them to accept_data in chunks of any length.         *)
(***************************************************************************)
\* bytes a peer that does not follow the protocol writes on one connection
MaxRawBytes == 8

\* the crafted frames: a frame of length zero; a body in one byte with
\* compression off (id 0, one payload byte) or a literal envelope with
\* compression on (id 9); a frame with the id 0xFFFF; a length VarInt of
\* five continuation bytes; the length -1; a deflated frame with the id 9;
\* an envelope that is no zlib stream; a deflated frame that declares 2
\* bytes and inflates to the 3 bytes <<2, 0, 0>>
RawFrames ==
    {<<0>>,
     <<2, 0, 9>>,
     <<3, 255, 255, 3>>,
     <<128, 128, 128, 128, 128>>,
     <<255, 255, 255, 255, 15>>,
     <<5, 1>> \o ZlibDeflate(<<9>>),
     <<3, 2, 7, 7>>,
     <<7, 2>> \o ZlibDeflate(<<2, 0, 0>>)}

\* the peer writes the bytes of a crafted frame to the connection
PeerWrite(bytes) ==
    /\ res = "Ok"
    /\ Len(stream) + Len(bytes) <= MaxRawBytes
    /\ LET r == IF peer.encryption_enabled THEN encrypt_data(peer, bytes)
                ELSE [f |-> peer, data |-> bytes]
       IN  /\ peer' = r.f
           /\ stream' = stream \o r.data
    /\ UNCHANGED <<fr, fr0, sent, fed, accepts, res, taken, frSent, out, slack>>

RawNext ==
    \/ \E stage \in Stages : SetStage(stage)
    \/ \E key \in Keys : EnableEncryption(key)
    \/ \E threshold \in Thresholds, s \in 0..MaxSlack :
          EnableCompression(threshold, s)
    \/ \E bytes \in RawFrames : PeerWrite(bytes)
    \/ \E n \in 1..(Len(stream) - fed) : Accept(n)
    \/ TakePending

RawSpec == Init /\ [][RawNext]_vars

(***************************************************************************)
(* What the claims speak about.                                            *)
(***************************************************************************)
\* every packet fr has decoded, in the order it was handed off or is pending
Decoded == taken \o fr.pending_received_packets

\* fr has accepted every byte the peer has written
AllFed == fed = Len(stream)

\* in_raw and in_plain of a framer hold no byte
NoResidual(f) ==
    /\ f.incoming_compressed.inner = <<>>
    /\ f.incoming_uncompressed.inner = <<>>

\* fr has serialized a LoginSuccess
SentLoginSuccess == \E i \in 1..Len(frSent) : frSent[i].ty = "LoginSuccess"

\* body = varint(packet_id) || payload
Body(packet) == write_var_int(get_id(packet.ty).id) \o write_to(packet)

\* the frame of a packet as the wire format defines it, for the settings
\* of the framer f
WireEnvelope(f, packet) ==
    IF ~f.compression_enabled THEN Body(packet)
    ELSE IF Len(Body(packet)) < f.compression_threshold
         THEN write_var_int(0) \o Body(packet)
         ELSE write_var_int(Len(Body(packet))) \o ZlibDeflate(Body(packet))

WireFrame(f, packet) ==
    write_var_int(Len(WireEnvelope(f, packet))) \o WireEnvelope(f, packet)

RECURSIVE WireStream(_, _)
WireStream(f, packets) ==
    IF packets = <<>> THEN <<>>
    ELSE WireFrame(f, Head(packets)) \o WireStream(f, Tail(packets))

\* the bytes written by the framer f before its cipher
Plain(f, bytes) ==
    IF f.encryption_enabled
    THEN CipherDecrypt(NewCipher(f.encryption_key), bytes, <<>>).data
    ELSE bytes

\* the stream of the peer is encoded as the wire format defines
ValidStream == Plain(peer, stream) = WireStream(peer, sent)

\* the packet is sent deflated under the settings of f
Deflated(f, packet) ==
    f.compression_enabled /\ Len(Body(packet)) >= f.compression_threshold

NoneDeflated == \A i \in 1..Len(sent) : ~Deflated(peer, sent[i])

\* how many of the frames of packets lie wholly in the first n bytes
RECURSIVE FramesWithin(_, _)
FramesWithin(packets, n) ==
    IF packets = <<>> THEN 0
    ELSE LET l == Len(serialize_packet(peer, Head(packets), slack).buf)
         IN  IF n >= l THEN 1 + FramesWithin(Tail(packets), n - l) ELSE 0

IsPrefix(s, t) == Len(s) <= Len(t) /\ s = Take(t, Len(s))

Rank(stage) ==
    CASE stage = "Handshake" -> 0
      [] stage \in {"Status", "Login"} -> 1
      [] stage = "Play" -> 2

(***************************************************************************)
(* C1.  Partial-read tolerance: when a valid encoded stream has been fed   *)
(* to fr in chunks, the packets decoded are those a framer in the state    *)
(* fr had at the start of the stream decodes from the whole stream in one  *)
(* accept_data call, and the residual buffers of both are empty; with      *)
(* compression off and on (literal and deflated frames).                   *)
(***************************************************************************)
C1_PartialReadTolerance ==
    (AllFed /\ ValidStream /\ ~SentLoginSuccess) =>
        LET whole == accept_data(fr0, stream, slack)
        IN  /\ res = "Ok"
            /\ whole.res = "Ok"
            /\ Decoded = whole.f.pending_received_packets
            /\ NoResidual(fr)
            /\ NoResidual(whole.f)

(***************************************************************************)
(* C2.  Round trip without encryption and compression: the buffer          *)
(* serialize_packet returns for a packet, fed to a framer that decodes     *)
(* the direction in the stage of the packet, yields that one packet in     *)
(* the inbox and leaves no byte in in_raw or in_plain.                     *)
(***************************************************************************)
C2_RoundTripPlain ==
    (/\ ~fr.encryption_enabled
     /\ ~fr.compression_enabled
     /\ Len(sent) = 1
     /\ frSent = <<>>
     /\ AllFed) =>
        /\ res = "Ok"
        /\ Decoded = sent
        /\ NoResidual(fr)

C2_Witness ==
    /\ ~fr.encryption_enabled
    /\ ~fr.compression_enabled
    /\ Len(sent) = 1
    /\ frSent = <<>>
    /\ AllFed
    /\ accepts = 1
    /\ fr.pending_received_packets = sent

(***************************************************************************)
(* C3.  Delivery order and exactly-once hand-off: the packets handed off   *)
(* by take_pending_packets followed by the pending ones are the packets    *)
(* of the frames fr has received whole, in the order of the wire (for a    *)
(* stream without deflated frames); take_pending_packets returns every     *)
(* pending packet and leaves the inbox empty, and no other call removes,   *)
(* reorders or repeats a packet.                                           *)
(***************************************************************************)
C3_InOrder ==
    NoneDeflated =>
        /\ IsPrefix(Decoded, sent)
        /\ res = "Ok" => Decoded = Take(sent, FramesWithin(sent, fed))

C3_HandOff ==
    /\ taken' # taken =>
          /\ taken' = taken \o fr.pending_received_packets
          /\ fr'.pending_received_packets = <<>>
    /\ taken' = taken =>
          IsPrefix(fr.pending_received_packets, fr'.pending_received_packets)

C3_Delivery == [](C3_InOrder) /\ [][C3_HandOff]_vars

C3_Witness ==
    /\ Len(taken) = 1
    /\ Len(fr.pending_received_packets) = 1
    /\ taken \o fr.pending_received_packets = sent

(***************************************************************************)
(* C4.  Egress envelope: the bytes serialize_packet returns are            *)
(* varint(len(envelope)) || envelope with envelope = body (compression     *)
(* off), varint(0) || body (len(body) < threshold) and                     *)
(* varint(len(body)) || zlib_deflate(body) (len(body) >= threshold).       *)
(***************************************************************************)
C4_EgressEnvelope ==
    /\ Plain(peer, stream) = WireStream(peer, sent)
    /\ Plain(fr, out) = WireStream(fr, frSent)

(***************************************************************************)
(* C5.  Round trip with compression above the threshold: when every        *)
(* packet of the stream has a body of at least the threshold, each frame   *)
(* carries the body length and the deflated body, and fr decodes every     *)
(* packet of the stream, also the ones that follow a deflated frame.       *)
(***************************************************************************)
C5_RoundTripDeflated ==
    (/\ sent # <<>>
     /\ \A i \in 1..Len(sent) : Deflated(peer, sent[i])
     /\ ~SentLoginSuccess
     /\ AllFed) =>
        /\ ValidStream
        /\ res = "Ok"
        /\ Decoded = sent

(***************************************************************************)
(* C6.  Round trip with encryption: with the same key enabled at both      *)
(* ends, the packets fr decodes are the packets the peer has serialized,   *)
(* in order, whatever the chunks the ciphertext arrives in, and no byte    *)
(* stays in the residual buffers of either framer.                         *)
(***************************************************************************)
C6_RoundTripEncrypted ==
    (/\ fr.encryption_enabled
     /\ NoneDeflated
     /\ ~SentLoginSuccess
     /\ AllFed) =>
        /\ res = "Ok"
        /\ Decoded = sent
        /\ NoResidual(fr)
        /\ NoResidual(peer)

C6_Witness ==
    /\ fr.encryption_enabled
    /\ ~fr.compression_enabled
    /\ Len(sent) = 2
    /\ AllFed
    /\ accepts = 2
    /\ Decoded = sent

(***************************************************************************)
(* C7.  Handshake stage transition: once fr, in stage Handshake, has       *)
(* received the frame of a Handshake, its stage is Status for              *)
(* next_state = 1 and Login for next_state = 2, and the frame after it,    *)
(* also in the same chunk, is decoded with the registry of that stage.     *)
(***************************************************************************)
C7_HandshakeTransition ==
    (/\ fr0.stage = "Handshake"
     /\ sent # <<>>
     /\ sent[1].ty = "Handshake"
     /\ NoneDeflated
     /\ frSent = <<>>
     /\ FramesWithin(sent, fed) >= 1) =>
        /\ fr.stage = (IF sent[1].next_state = 1 THEN "Status" ELSE "Login")
        /\ AllFed => Decoded = sent

C7_Witness ==
    /\ fr0.stage = "Handshake"
    /\ Len(sent) = 2
    /\ sent[1].ty = "Handshake"
    /\ sent[1].next_state = 2
    /\ sent[2].ty = "LoginStart"
    /\ AllFed
    /\ accepts = 1
    /\ fr.stage = "Login"
    /\ fr.pending_received_packets = sent

(***************************************************************************)
(* C8.  LoginSuccess transition: once serialize_packet has been given a    *)
(* LoginSuccess the stage is Play, and the frames accepted afterwards are  *)
(* decoded with the Play registry.                                         *)
(***************************************************************************)
C8_LoginSuccessTransition ==
    SentLoginSuccess =>
        /\ fr.stage = "Play"
        /\ (sent # <<>> /\ stream # <<>> /\ fr0.stage = "Login" /\ NoneDeflated
              /\ AllFed /\ \A i \in 1..Len(sent) : get_id(sent[i].ty).stage = "Play")
            => Decoded = sent

C8_Witness ==
    /\ SentLoginSuccess
    /\ fr0.stage = "Login"
    /\ Len(sent) = 1
    /\ sent[1].ty = "ChatMessageServerbound"
    /\ AllFed
    /\ Decoded = sent
    /\ fr.stage = "Play"

(***************************************************************************)
(* C9.  Stage monotonicity: no accept_data or serialize_packet call moves  *)
(* the stage to an earlier phase (Handshake, then Status or Login, then    *)
(* Play).                                                                  *)
(***************************************************************************)
C9_StageMonotonic ==
    [][~Fresh' => Rank(fr'.stage) >= Rank(fr.stage)]_vars

C9_Witness ==
    /\ fr0.stage = "Handshake"
    /\ fr.stage = "Play"
    /\ Len(Decoded) = 1
    /\ Decoded[1].ty = "Handshake"
    /\ SentLoginSuccess

(***************************************************************************)
(* C10.  Stage machine edges: accept_data and serialize_packet move the    *)
(* stage only from Handshake to Status or Login and from Login to Play;    *)
(* in Status and in Play no call changes it.                               *)
(***************************************************************************)
C10_StageEdges ==
    [][(~Fresh' /\ fr'.stage # fr.stage) =>
          \/ fr.stage = "Handshake" /\ fr'.stage \in {"Status", "Login"}
          \/ fr.stage = "Login" /\ fr'.stage = "Play"]_vars

(***************************************************************************)
(* What the claims about crafted input speak about.                        *)
(***************************************************************************)
\* the bytes of the stream as the cipher of fr yields them
PlainStream == Plain(fr0, stream)

\* the bytes accept_data gets with the step: the chunk after decryption
ChunkOfStep ==
    SubSeq(Plain(fr0, Take(stream, fed')), fed + 1, fed')

\* in_raw of fr with the chunk of the step appended: what the loop of
\* accept_data starts from
RawOfStep == Unread(fr.incoming_compressed) \o ChunkOfStep

\* The bytes raw begin with a complete frame (whole), read as the wire
\* format defines it for the settings of f: the envelope of packet_length
\* bytes (env), with compression the uncompressed_size VarInt (size), the
\* rest of the envelope (rest), what it inflates to (z), and the body.
HeadFrame(f, raw) ==
    LET len == read_var_int(raw, 0)
        whole == len.ok /\ len.val >= 1 /\ Len(raw) - len.n >= len.val
        env == IF whole THEN SubSeq(raw, len.n + 1, len.n + len.val) ELSE <<>>
        size == read_var_int(env, 0)
        rest == Drop(env, size.n)
        z == ZlibInflate(rest)
    IN  [whole |-> whole, env |-> env, size |-> size, rest |-> rest, z |-> z,
         body |-> IF ~f.compression_enabled THEN env
                  ELSE IF size.ok /\ size.val = 0 THEN rest
                  ELSE z.out]

\* the frame is well formed: its envelope yields a body
WellFormed(f, h) ==
    /\ h.whole
    /\ f.compression_enabled =>
          /\ h.size.ok
          /\ h.size.val # 0 => (h.z.status = "end" /\ Len(h.z.out) = h.size.val)

\* the step is an accept_data call on fr
AcceptStep == fed' > fed

(***************************************************************************)
(* C11.  Unknown packet id is fatal: when accept_data finds a complete,    *)
(* well-formed frame at the head of in_raw whose packet id has no registry *)
(* entry for the stage and direction of the framer, it returns Err and     *)
(* pushes no packet; on the literal, the deflated and the uncompressed     *)
(* path.                                                                   *)
(***************************************************************************)
UnknownIdAtHead(f, raw) ==
    LET h == HeadFrame(f, raw)
        id == read_var_int(h.body, 0)
    IN  /\ WellFormed(f, h)
        /\ id.ok
        /\ get_from_id(id.val, f.direction, f.stage) = {}

C11_UnknownPacketFatal ==
    [][(AcceptStep /\ UnknownIdAtHead(fr, RawOfStep)) =>
          /\ res' = "Err"
          /\ fr'.pending_received_packets = fr.pending_received_packets]_vars

C11_Witness ==
    /\ fr.stage = "Play"
    /\ PlainStream = <<3, 255, 255, 3>>
    /\ AllFed
    /\ accepts = 2
    /\ res = "Err"
    /\ Decoded = <<>>

(***************************************************************************)
(* C12.  Incomplete never surfaces: accept_data never returns Err from a   *)
(* VarInt read that ran out of input.  A call that returns Err at the      *)
(* uncompressed_size VarInt leaves the cursor of in_raw at that VarInt     *)
(* (line 119, before remove_prior); one that returns Err at the packet-id  *)
(* VarInt leaves the cursor of in_plain at its mark (line 145); the claim  *)
(* says that the VarInt under the cursor is then not one cut short by the  *)
(* end of the buffer.                                                      *)
(***************************************************************************)
\* read_var_int at the cursor of the buffer b runs out of input
RunsOut(b) ==
    LET v == read_var_int(b.inner, b.rpos)
    IN  ~v.ok /\ v.err = "Incomplete"

\* the last accept_data call returned Err at the uncompressed_size VarInt
ErrAtSizeVarInt ==
    /\ res = "Err"
    /\ fr.incoming_compressed.rpos > 0
    /\ fr.incoming_compressed.rpos = fr.incoming_compressed.mark

\* the last accept_data call returned Err at the packet-id VarInt
ErrAtIdVarInt ==
    /\ res = "Err"
    /\ fr.incoming_compressed.rpos = 0
    /\ fr.incoming_uncompressed.rpos = fr.incoming_uncompressed.mark

C12_IncompleteNeverSurfaces ==
    /\ ErrAtSizeVarInt => ~RunsOut(fr.incoming_compressed)
    /\ ErrAtIdVarInt => ~RunsOut(fr.incoming_uncompressed)

(***************************************************************************)
(* C13.  VarInt boundary: when the bytes at the head of in_raw are five    *)
(* bytes with the continuation bit set, accept_data returns Err; it does   *)
(* not return Ok to wait for more bytes.                                   *)
(***************************************************************************)
FiveContinuationBytes(raw) ==
    /\ Len(raw) >= 5
    /\ \A i \in 1..5 : raw[i] >= 128

C13_VarIntBoundary ==
    (/\ accepts >= 1
     /\ fed >= 5
     /\ FiveContinuationBytes(PlainStream)) =>
        res = "Err"

(***************************************************************************)
(* C14.  Decompression mismatch is fatal: with compression enabled, when   *)
(* accept_data finds a complete frame at the head of in_raw that declares  *)
(* uncompressed_size # 0 and the rest of whose envelope is no zlib stream  *)
(* or does not inflate to exactly uncompressed_size bytes, it returns Err  *)
(* and pushes no packet.                                                   *)
(***************************************************************************)
MismatchAtHead(f, raw) ==
    LET h == HeadFrame(f, raw)
    IN  /\ f.compression_enabled
        /\ h.whole
        /\ h.size.ok
        /\ h.size.val # 0
        /\ (h.z.status # "end" \/ Len(h.z.out) # h.size.val)

C14_DecompressionMismatchFatal ==
    [][(AcceptStep /\ MismatchAtHead(fr, RawOfStep)) =>
          /\ res' = "Err"
          /\ fr'.pending_received_packets = fr.pending_received_packets]_vars

(***************************************************************************)
(* C15.  Cipher framing invariant: with encryption active, the decrypt     *)
(* cipher of fr is in the state reached by decrypting, from the state      *)
(* enable_encryption set, exactly the bytes received, in order, and in_raw *)
(* holds the end of that plaintext (all of it while no frame is complete); *)
(* the bytes serialize_packet has returned are the frames, length VarInt   *)
(* included, encrypted in call order from the state enable_encryption set, *)
(* and the encrypt cipher is in the state reached by that.                 *)
(***************************************************************************)
IsSuffix(s, t) == Len(s) <= Len(t) /\ s = Drop(t, Len(t) - Len(s))

\* the bytes a framer in the state f returns for the packets, serialized
\* one after the other with no other call between them
RECURSIVE SerializeAll(_, _)
SerializeAll(f, packets) ==
    IF packets = <<>> THEN <<>>
    ELSE LET r == serialize_packet(f, Head(packets), slack)
         IN  r.buf \o SerializeAll(r.f, Tail(packets))

Unencrypted(f) == [f EXCEPT !.encryption_enabled = FALSE]

C15_CipherFraming ==
    fr.encryption_enabled =>
        LET dec == CipherDecrypt(NewCipher(fr.encryption_key), Take(stream, fed), <<>>)
            enc == CipherEncrypt(NewCipher(fr.encryption_key),
                                 SerializeAll(Unencrypted(fr0), frSent), <<>>)
        IN  /\ fr.decrypter = dec.cipher
            /\ IsSuffix(fr.incoming_compressed.inner, dec.data)
            /\ (res = "Ok" /\ Decoded = <<>>) =>
                  fr.incoming_compressed.inner = dec.data
            /\ out = enc.data
            /\ fr.encrypter = enc.cipher

C15_Witness ==
    /\ fr.encryption_enabled
    /\ Len(sent) = 1
    /\ AllFed
    /\ accepts = 2
    /\ Decoded = sent
    /\ Len(frSent) = 1
    /\ out # SerializeAll(Unencrypted(fr0), frSent)

(***************************************************************************)
(* C16.  Encryption and compression are monotonic: no step of the framer   *)
(* turns encryption off once it is on, nor compression.                    *)
(***************************************************************************)
C16_Monotonic ==
    [][/\ fr.encryption_enabled => fr'.encryption_enabled
       /\ fr.compression_enabled => fr'.compression_enabled]_vars

C16_Witness ==
    /\ fr.encryption_enabled
    /\ fr.compression_enabled
    /\ accepts >= 1
    /\ taken # <<>>
    /\ frSent # <<>>

(***************************************************************************)
(* C17.  Frame alignment of in_raw: after an accept_data call that has     *)
(* returned Ok on a valid stream, in_raw holds the bytes received after    *)
(* the frames decoded so far, so that it is empty or begins with the       *)
(* length VarInt of the next frame: each decoded frame has consumed its    *)
(* own bytes and none of the frame that follows it.                        *)
(***************************************************************************)
\* how many bytes the first k frames of the stream take on the wire
FrameBytes(k) == Len(WireStream(peer, Take(sent, k)))

C17_FrameAlignment ==
    (res = "Ok" /\ ValidStream) =>
        /\ FrameBytes(Len(Decoded)) <= fed
        /\ Unread(fr.incoming_compressed) =
              Drop(Take(Plain(peer, stream), fed), FrameBytes(Len(Decoded)))

(***************************************************************************)
(* C18.  Residual bound after a successful call: when accept_data has      *)
(* returned Ok, in_plain is empty and in_raw holds less than one complete  *)
(* frame: nothing, a length VarInt cut short, or a length VarInt followed  *)
(* by fewer than packet_length bytes.                                      *)
(***************************************************************************)
LessThanOneFrame(raw) ==
    LET len == read_var_int(raw, 0)
    IN  \/ ~len.ok /\ len.err = "Incomplete"
        \/ len.ok /\ Len(raw) - len.n < len.val

C18_ResidualBound ==
    (accepts >= 1 /\ res = "Ok") =>
        /\ Unread(fr.incoming_uncompressed) = <<>>
        /\ LessThanOneFrame(Unread(fr.incoming_compressed))

(***************************************************************************)
(* C19.  Independence of the two directions: a serialize_packet call       *)
(* leaves in_raw, in_plain, the inbox and the decrypt cipher as they are,  *)
(* an accept_data call leaves the encrypt cipher as it is, and the bytes   *)
(* serialize_packet has returned are those the framer returns for the      *)
(* same packets with no accept_data call between them.                     *)
(***************************************************************************)
C19_SameBytes == out = SerializeAll(fr0, frSent)

C19_Frame ==
    /\ frSent' # frSent =>
          /\ fr'.incoming_compressed = fr.incoming_compressed
          /\ fr'.incoming_uncompressed = fr.incoming_uncompressed
          /\ fr'.pending_received_packets = fr.pending_received_packets
          /\ fr'.decrypter = fr.decrypter
    /\ AcceptStep => fr'.encrypter = fr.encrypter

C19_Independence == [](C19_SameBytes) /\ [][C19_Frame]_vars

C19_Witness ==
    /\ fr.encryption_enabled
    /\ Len(frSent) = 1
    /\ Len(sent) = 1
    /\ accepts = 1
    /\ 0 < fed
    /\ fed < Len(stream)
    /\ Unread(fr.incoming_compressed) = Plain(peer, Take(stream, fed))

(***************************************************************************)
(* C20.  accept_data always completes with a result: no call ends in a     *)
(* panic (an index past the buffer, an underflow of the body or payload    *)
(* length, a failed allocation or unwrap).                                 *)
(***************************************************************************)
C20_AlwaysCompletes == res # "Panic"

====
